---- MODULE Spec2Model ----
(***************************************************************************)
(* The nodeResources analyzer of troubleshoot (package analyzer), and the  *)
(* preflight loop that runs the analyzers (package preflight).             *)
(*                                                                         *)
(* A Go string is a sequence of atoms: an atom is one character ("(", ")", *)
(* "<", "=", "3", " ", ...) or a run of letters ("count", "cpuCapacity").  *)
(* The empty string is << >>.  A Quantity is its value in thousandths, so  *)
(* the quantity strings "2" and "1500m" are 2000 and 1500.                 *)
(***************************************************************************)
EXTENDS Integers, Sequences, FiniteSets, TLC

VARIABLES
    analyzer,        \* the *NodeResources rule object the evaluations share
    declared,        \* the rule as it was declared (never assigned after Init)
    files,           \* the collected files the last evaluation read
    ret,             \* what the last analyzeNodeResources call returned
    conditional,     \* compareNodeResourceConditionalToActual: its arguments ...
    matchingNodes,
    totalNodeCount,
    cmp,             \* ... and its return values
    node,            \* nodeMatchesFilters: its arguments ...
    filters,
    isMatch,         \* ... and its return values
    analyzers,       \* CollectResult.Analyze: what analyze.Analyze returns per analyzer
    analyzeResults   \* ... and the list it returns

vars == <<analyzer, declared, files, ret, conditional, matchingNodes,
          totalNodeCount, cmp, node, filters, isMatch, analyzers, analyzeResults>>

\* The bounds of the model.
MaxNodes == 2
MaxOutcomes == 2
MaxAnalyzers == 3

nil == "<nil>"
Idle == "idle"

----------------------------------------------------------------------------
(* Text *)

Digits == {"0", "1", "2", "3", "4", "5", "6", "7", "8", "9"}

DigitVal(d) ==
    CASE d = "0" -> 0 [] d = "1" -> 1 [] d = "2" -> 2 [] d = "3" -> 3
      [] d = "4" -> 4 [] d = "5" -> 5 [] d = "6" -> 6 [] d = "7" -> 7
      [] d = "8" -> 8 [] d = "9" -> 9

IsDigits(s) == Len(s) > 0 /\ \A i \in 1..Len(s) : s[i] \in Digits

RECURSIVE Fields(_)
\* strings.Fields: the maximal runs of non-space atoms, in order.
Fields(s) ==
    IF s = << >> THEN << >>
    ELSE IF Head(s) = " " THEN Fields(Tail(s))
    ELSE LET rest == Fields(Tail(s))
         IN  IF Len(s) > 1 /\ s[2] # " "
             THEN <<(<<Head(s)>> \o Head(rest))>> \o Tail(rest)
             ELSE <<(<<Head(s)>>)>> \o rest

RECURSIVE StripZeros(_)
StripZeros(ds) ==
    IF Len(ds) > 1 /\ Head(ds) = "0" THEN StripZeros(Tail(ds)) ELSE ds

RECURSIVE DigitsLeq(_, _)
\* a <= b for two digit strings of the same length.
DigitsLeq(a, b) ==
    IF a = << >> THEN TRUE
    ELSE IF DigitVal(Head(a)) < DigitVal(Head(b)) THEN TRUE
    ELSE IF DigitVal(Head(a)) > DigitVal(Head(b)) THEN FALSE
    ELSE DigitsLeq(Tail(a), Tail(b))

\* The digits of the greatest int, 1<<63 - 1, and of the magnitude of the least.
MaxIntDigits ==
    <<"9","2","2","3","3","7","2","0","3","6","8","5","4","7","7","5","8","0","7">>
MinIntDigits ==
    <<"9","2","2","3","3","7","2","0","3","6","8","5","4","7","7","5","8","0","8">>

RECURSIVE DigitsValue(_)
DigitsValue(ds) ==
    IF ds = << >> THEN 0
    ELSE 10 * DigitsValue(SubSeq(ds, 1, Len(ds) - 1)) + DigitVal(ds[Len(ds)])

Signed(s) == s # << >> /\ Head(s) \in {"+", "-"}
Magnitude(s) == IF Signed(s) THEN Tail(s) ELSE s

\* strconv.Atoi: an optional sign and decimal digits, within the range of int
\* (64 bits); beyond it Atoi returns a range error.
AtoiOk(s) ==
    LET ds == Magnitude(s)
        lim == IF Signed(s) /\ Head(s) = "-" THEN MinIntDigits ELSE MaxIntDigits
    IN  /\ IsDigits(ds)
        /\ LET z == StripZeros(ds)
           IN  \/ Len(z) < Len(lim)
               \/ Len(z) = Len(lim) /\ DigitsLeq(z, lim)

AtoiValue(s) ==
    LET v == DigitsValue(Magnitude(s))
    IN  IF Signed(s) /\ Head(s) = "-" THEN 0 - v ELSE v

RECURSIVE NatDigits(_)
NatDigits(n) ==
    LET d == CHOOSE c \in Digits : DigitVal(c) = n % 10
    IN  IF n < 10 THEN <<d>> ELSE NatDigits(n \div 10) \o <<d>>

\* strconv.Itoa
Itoa(n) == IF n < 0 THEN <<"-">> \o NatDigits(0 - n) ELSE NatDigits(n)

----------------------------------------------------------------------------
(* resource.Quantity *)

Suffixes == {"m", "k"}

\* resource.ParseQuantity: [sign] digits [suffix]; anything else is an error.
ParseQuantityOk(s) ==
    LET body == Magnitude(s)
    IN  \/ IsDigits(body)
        \/ /\ Len(body) > 1
           /\ body[Len(body)] \in Suffixes
           /\ IsDigits(SubSeq(body, 1, Len(body) - 1))

ParseQuantity(s) ==
    LET body == Magnitude(s)
        suffixed == body[Len(body)] \in Suffixes
        n == DigitsValue(IF suffixed THEN SubSeq(body, 1, Len(body) - 1) ELSE body)
        thousandths ==
            IF ~suffixed THEN 1000 * n
            ELSE IF body[Len(body)] = "m" THEN n
            ELSE 1000 * 1000 * n
    IN  IF Signed(s) /\ Head(s) = "-" THEN 0 - thousandths ELSE thousandths

\* A *resource.Quantity: nil, or a pointer to a value.
NilQuantity == [isNil |-> TRUE, v |-> 0]
Quantity(v) == [isNil |-> FALSE, v |-> v]

\* Quantity.Cmp
Cmp(a, b) == IF a < b THEN 0 - 1 ELSE IF a > b THEN 1 ELSE 0

----------------------------------------------------------------------------
(* corev1.Node *)

\* The empty map.
NoEntries == [k \in {} |-> 0]

\* ResourceList.Cpu, .Memory, .Pods, .StorageEphemeral (k8s.io/api/core/v1):
\*     if val, ok := (*rl)[name]; ok { return &val }
\*     return &resource.Quantity{Format: defaultFormat}
\* the entry, or a pointer to a zero Quantity when the list has no such entry;
\* never nil.
ResourceListName(rl, name) ==
    IF name \in DOMAIN rl THEN Quantity(rl[name]) ELSE Quantity(0)

Properties ==
    {"cpuCapacity", "cpuAllocatable", "memoryCapacity", "memoryAllocatable",
     "podCapacity", "podAllocatable", "ephemeralStorageCapacity",
     "ephemeralStorageAllocatable"}

getQuantity(n, property) ==
    CASE property = "cpuCapacity" -> ResourceListName(n.Capacity, "cpu")
      [] property = "cpuAllocatable" -> ResourceListName(n.Allocatable, "cpu")
      [] property = "memoryCapacity" -> ResourceListName(n.Capacity, "memory")
      [] property = "memoryAllocatable" -> ResourceListName(n.Allocatable, "memory")
      [] property = "podCapacity" -> ResourceListName(n.Capacity, "pods")
      [] property = "podAllocatable" -> ResourceListName(n.Allocatable, "pods")
      [] property = "ephemeralStorageCapacity" ->
            ResourceListName(n.Capacity, "ephemeral-storage")
      [] property = "ephemeralStorageAllocatable" ->
            ResourceListName(n.Allocatable, "ephemeral-storage")
      [] OTHER -> NilQuantity

RECURSIVE findSumFrom(_, _, _, _)
findSumFrom(nodes, property, i, sum) ==
    IF i > Len(nodes) THEN sum
    ELSE LET quant == getQuantity(nodes[i], property)
         IN  findSumFrom(nodes, property, i + 1,
                         IF ~quant.isNil THEN sum + quant.v ELSE sum)

findSum(nodes, property) == Quantity(findSumFrom(nodes, property, 1, 0))

RECURSIVE findMinFrom(_, _, _, _)
findMinFrom(nodes, property, i, min) ==
    IF i > Len(nodes) THEN min
    ELSE LET quant == getQuantity(nodes[i], property)
         IN  findMinFrom(nodes, property, i + 1,
                IF ~quant.isNil
                THEN IF min.isNil THEN quant
                     ELSE IF Cmp(quant.v, min.v) = 0 - 1 THEN quant ELSE min
                ELSE min)

\* nil quantities aside, the first node's quantity.
findMin_First(nodes, property) ==
    IF nodes = << >> THEN NilQuantity ELSE getQuantity(nodes[1], property)

findMin(nodes, property) == findMinFrom(nodes, property, 1, NilQuantity)

RECURSIVE findMaxFrom(_, _, _, _)
findMaxFrom(nodes, property, i, max) ==
    IF i > Len(nodes) THEN max
    ELSE LET quant == getQuantity(nodes[i], property)
         IN  findMaxFrom(nodes, property, i + 1,
                IF ~quant.isNil
                THEN IF max.isNil THEN quant
                     ELSE IF Cmp(quant.v, max.v) = 1 THEN quant ELSE max
                ELSE max)

findMax(nodes, property) == findMaxFrom(nodes, property, 1, NilQuantity)

----------------------------------------------------------------------------
(* compareNodeResourceConditionalToActual *)

Positions(s, c) == {i \in 1..Len(s) : s[i] = c}
Greatest(S) == CHOOSE i \in S : \A j \in S : j <= i

\* regexp (?P<function>.*)\((?P<property>.*)\), FindStringSubmatch: the match
\* starts at the first atom, the function group is greedy (it ends before the
\* last "(" that a ")" follows) and so is the property group (it ends before
\* the last ")").
FindStringSubmatch(s) ==
    LET closes == Positions(s, ")")
        close  == Greatest(closes)
        opens  == {i \in Positions(s, "(") : i < close}
        open   == Greatest(opens)
    IN  IF closes = {} \/ opens = {}
        THEN [matched |-> FALSE, function |-> << >>, property |-> << >>]
        ELSE [matched  |-> TRUE,
              function |-> SubSeq(s, 1, open - 1),
              property |-> SubSeq(s, open + 1, close - 1)]

\* fmt.Sprintf("count() == %s", p)
CountEquals(p) == <<"count", "(", ")", " ", "=", "=", " ">> \o p

\* No second try: a first field without a call does not match.
Match_NoSecondTry(part) == FindStringSubmatch(part)

Match(part) ==
    LET match == FindStringSubmatch(part)
    IN  IF match.matched THEN match ELSE FindStringSubmatch(CountEquals(part))

\* The interface values actualValue and desiredValue, tagged with their
\* dynamic type: int, string, *resource.Quantity, or the nil interface.
IntValue(i) == [type |-> "int", i |-> i, q |-> NilQuantity, s |-> << >>]
StringValue(s) == [type |-> "string", i |-> 0, q |-> NilQuantity, s |-> s]
QuantityValue(q) == [type |-> "*resource.Quantity", i |-> 0, q |-> q, s |-> << >>]
NilValue == [type |-> nil, i |-> 0, q |-> NilQuantity, s |-> << >>]

\* A property name is one atom; any other text names no property.
PropertyName(p) == IF Len(p) = 1 THEN p[1] ELSE ""

ActualValue(function, property, nodes) ==
    CASE function = <<"count">> -> IntValue(Len(nodes))
      [] function = <<"min">> -> QuantityValue(findMin(nodes, PropertyName(property)))
      [] function = <<"max">> -> QuantityValue(findMax(nodes, PropertyName(property)))
      [] function = <<"sum">> -> QuantityValue(findSum(nodes, PropertyName(property)))
      [] OTHER -> NilValue

DesiredValue(part) ==
    IF AtoiOk(part) THEN IntValue(AtoiValue(part)) ELSE StringValue(part)

Returned(res, err) == [res |-> res, err |-> err]
\* A panic, recovered by the deferred function: res is still false.
Recovered == Returned(FALSE, "failed to evaluate")

Operators ==
    {<<"=">>, <<"=", "=">>, <<"=", "=", "=">>, <<"<">>, <<">">>,
     <<"<", "=">>, <<">", "=">>}

\* "<=" and ">=" taken as "<" and ">".
Holds_Strict(operator, c) ==
    CASE operator \in {<<"=">>, <<"=", "=">>, <<"=", "=", "=">>} -> c = 0
      [] operator \in {<<"<">>, <<"<", "=">>} -> c = 0 - 1
      [] operator \in {<<">">>, <<">", "=">>} -> c = 1

\* What the case of the operator makes of a three-way comparison.
Holds(operator, c) ==
    CASE operator \in {<<"=">>, <<"=", "=">>, <<"=", "=", "=">>} -> c = 0
      [] operator = <<"<">> -> c = 0 - 1
      [] operator = <<">">> -> c = 1
      [] operator = <<"<", "=">> -> c = 0 \/ c = 0 - 1
      [] operator = <<">", "=">> -> c = 0 \/ c = 1

\* One case of the switch on the operator.  The two int operands are compared
\* as ints; otherwise actualValue.(*resource.Quantity) panics unless the value
\* is of that type, resource.MustParse panics on a string that does not
\* parse, and Cmp panics on a nil receiver.
Compare(operator, actualValue, desiredValue) ==
    IF actualValue.type = "int" /\ desiredValue.type = "int"
    THEN Returned(Holds(operator, Cmp(actualValue.i, desiredValue.i)), nil)
    ELSE IF actualValue.type # "*resource.Quantity" THEN Recovered
    ELSE LET text == IF desiredValue.type = "string" THEN desiredValue.s
                     ELSE Itoa(desiredValue.i)
         IN  IF ~ParseQuantityOk(text) \/ actualValue.q.isNil THEN Recovered
             ELSE Returned(Holds(operator, Cmp(actualValue.q.v, ParseQuantity(text))),
                           nil)

compareNodeResourceConditionalToActual(cond, nodes, total) ==
    IF cond = << >> THEN Returned(TRUE, nil)
    ELSE
    LET fields == Fields(cond)
        parts  == IF Len(fields) = 2 THEN <<(<<"count">>)>> \o fields ELSE fields
    IN  IF Len(parts) # 3
        THEN Returned(FALSE, "unable to parse nodeResources conditional")
        ELSE
        LET operator     == parts[2]
            desiredValue == DesiredValue(parts[3])
            match        == Match(parts[1])
        IN  IF ~match.matched
            THEN Returned(FALSE,
                     "conditional does not match pattern of function(property?)")
            ELSE
            LET actualValue == ActualValue(match.function, match.property, nodes)
            IN  IF operator \in Operators
                THEN Compare(operator, actualValue, desiredValue)
                ELSE Returned(FALSE, "unexpected conditional in nodeResources")

----------------------------------------------------------------------------
(* nodeMatchesFilters *)

\* A *metav1.LabelSelector and a *NodeResourceFilters: nil, or a pointer.
NilSelector == [isNil |-> TRUE, MatchLabel |-> NoEntries]
Selector(matchLabel) == [isNil |-> FALSE, MatchLabel |-> matchLabel]

NilFilters ==
    [isNil |-> TRUE, Selector |-> NilSelector,
     CPUCapacity |-> << >>, CPUAllocatable |-> << >>,
     MemoryCapacity |-> << >>, MemoryAllocatable |-> << >>,
     PodCapacity |-> << >>, PodAllocatable |-> << >>,
     EphemeralStorageCapacity |-> << >>, EphemeralStorageAllocatable |-> << >>]
\* &NodeResourceFilters{}: no clause declared.
EmptyFilters == [NilFilters EXCEPT !.isNil = FALSE]

Matched(match, err) == [match |-> match, err |-> err]

Wrap(err, message) == message \o ": " \o err

\* The bound is exclusive: a quantity equal to it does not match.
Threshold_Exclusive(text, quantity, message, rest) ==
    IF text = << >> THEN rest
    ELSE IF ~ParseQuantityOk(text)
    THEN [match |-> FALSE,
          err |-> message \o ": quantities must match the regular expression"]
    ELSE IF Cmp(quantity.v, ParseQuantity(text)) # 1 THEN [match |-> FALSE, err |-> nil]
    ELSE rest

\* One threshold clause: skipped when not declared; a bound that does not parse
\* is an error; a quantity below the bound ends the check with no match.
Threshold(text, quantity, message, rest) ==
    IF text = << >> THEN rest
    ELSE IF ~ParseQuantityOk(text)
    THEN Matched(FALSE, Wrap("quantities must match the regular expression", message))
    ELSE IF Cmp(quantity.v, ParseQuantity(text)) = 0 - 1 THEN Matched(FALSE, nil)
    ELSE rest

\* The eight threshold clauses, in the order of the code.
matchesThresholds(n, f) ==
    Threshold(f.CPUCapacity, ResourceListName(n.Capacity, "cpu"),
              "failed to parse cpu capacity",
    Threshold(f.CPUAllocatable, ResourceListName(n.Allocatable, "cpu"),
              "failed to parse cpu allocatable",
    Threshold(f.MemoryCapacity, ResourceListName(n.Capacity, "memory"),
              "failed to parse memory capacity",
    Threshold(f.MemoryAllocatable, ResourceListName(n.Allocatable, "memory"),
              "failed to parse memory allocatable",
    Threshold(f.PodCapacity, ResourceListName(n.Capacity, "pods"),
              "failed to parse pod capacity",
    Threshold(f.PodAllocatable, ResourceListName(n.Allocatable, "pods"),
              "failed to parse pod allocatable",
    Threshold(f.EphemeralStorageCapacity,
              ResourceListName(n.Capacity, "ephemeral-storage"),
              "failed to parse ephemeralstorage capacity",
    Threshold(f.EphemeralStorageAllocatable,
              ResourceListName(n.Allocatable, "ephemeral-storage"),
              "failed to parse ephemeralstorage allocatable",
    Matched(TRUE, nil)))))))))

\* The label loop finds a key the node lacks or holds with another value.
labelFails(n, f) ==
    /\ ~f.Selector.isNil
    /\ \E k \in DOMAIN f.Selector.MatchLabel :
            \/ k \notin DOMAIN n.Labels
            \/ n.Labels[k] # f.Selector.MatchLabel[k]

\* A label that fails is not an error: the node is left out.
nodeMatchesFilters_LeavesOut(n, f) ==
    IF f.isNil THEN Matched(TRUE, nil)
    ELSE IF labelFails(n, f) THEN Matched(FALSE, nil)
    ELSE matchesThresholds(n, f)

\* The label loop names the key that failed; which one it names when several
\* fail is up to the map's iteration order, so the key is left out of the text.
nodeMatchesFilters(n, f) ==
    IF f.isNil THEN Matched(TRUE, nil)
    ELSE IF labelFails(n, f) THEN Matched(FALSE, "failed to match label")
    ELSE matchesThresholds(n, f)

----------------------------------------------------------------------------
(* analyzeNodeResources *)

\* A file's contents: contents that do not decode, or the decoded list.
Undecodable == [valid |-> FALSE, items |-> << >>]
Json(items) == [valid |-> TRUE, items |-> items]

\* The collected files: the protected map (nil, or a map) before AllCollectedData.
Collected(protected, all) == [protected |-> protected, AllCollectedData |-> all]
NilMap == [isNil |-> TRUE, entries |-> NoEntries]
Map(entries) == [isNil |-> FALSE, entries |-> entries]

getCollectedFileContents(c, fileName) ==
    IF ~c.protected.isNil /\ fileName \in DOMAIN c.protected.entries
    THEN [contents |-> c.protected.entries[fileName], err |-> nil]
    ELSE IF fileName \in DOMAIN c.AllCollectedData
    THEN [contents |-> c.AllCollectedData[fileName], err |-> nil]
    ELSE [contents |-> Undecodable, err |-> "file " \o fileName \o " was not collected"]

NodesFile == "cluster-resources/nodes.json"
\* filepath.Join("cluster-resources", "deployments", fmt.Sprintf("%s.json", namespace))
DeploymentsFile(namespace) == "cluster-resources/deployments/" \o namespace \o ".json"

\* *AnalyzeResult: nil, or a pointer.
NilResult ==
    [isNil |-> TRUE, Title |-> "", IsPass |-> FALSE, IsFail |-> FALSE,
     IsWarn |-> FALSE, Message |-> "", URI |-> ""]
NewResult(title) == [NilResult EXCEPT !.isNil = FALSE, !.Title = title]

\* *SingleOutcome, *Deployment and the onUpdate / onInstall specs: nil, or a pointer.
NilOutcome == [isNil |-> TRUE, When |-> << >>, Message |-> "", URI |-> ""]
SingleOutcome(when, message, uri) ==
    [isNil |-> FALSE, When |-> when, Message |-> message, URI |-> uri]
NilDeployment == [isNil |-> TRUE, Name |-> "", Namespace |-> ""]
NilSpecs == [isNil |-> TRUE, Filters |-> NilFilters, Outcomes |-> << >>]
Specs(f, outcomes) == [isNil |-> FALSE, Filters |-> f, Outcomes |-> outcomes]

checkDeployment(a, c) ==
    LET collected == getCollectedFileContents(c, DeploymentsFile(a.Deployment.Namespace))
    IN  IF collected.err # nil
        THEN [exists |-> FALSE,
              err |-> Wrap(collected.err,
                           "failed to read collected deployments from namespace")]
        ELSE IF ~collected.contents.valid
        THEN [exists |-> FALSE,
              err |-> Wrap("invalid character", "failed to unmarshal deployment list")]
        ELSE [exists |-> \E i \in 1..Len(collected.contents.items) :
                            collected.contents.items[i].Name = a.Deployment.Name,
              err |-> nil]

Return(result, err, at, evaluated, a) ==
    [result |-> result, err |-> err, at |-> at, evaluated |-> evaluated, analyzer |-> a]

RECURSIVE FilterNodes(_, _, _, _)
\* The loop over the nodes: the first node whose check fails ends it.
FilterNodes(nodes, f, i, matching) ==
    IF i > Len(nodes) THEN [matchingNodes |-> matching, err |-> nil]
    ELSE LET m == nodeMatchesFilters(nodes[i], f)
         IN  IF m.err # nil
             THEN [matchingNodes |-> matching,
                   err |-> Wrap(m.err, "failed to check if node matches filter")]
             ELSE FilterNodes(nodes, f, i + 1,
                              IF m.match THEN Append(matching, nodes[i]) ELSE matching)

\* The outcome an entry is evaluated as: Fail before Warn before Pass.
Kind(outcome) ==
    IF ~outcome.Fail.isNil THEN "Fail"
    ELSE IF ~outcome.Warn.isNil THEN "Warn"
    ELSE IF ~outcome.Pass.isNil THEN "Pass"
    ELSE "none"

Verdict(result, kind, single) ==
    [result EXCEPT !.IsFail = (kind = "Fail") \/ @,
                   !.IsWarn = (kind = "Warn") \/ @,
                   !.IsPass = (kind = "Pass") \/ @,
                   !.Message = single.Message,
                   !.URI = single.URI]

RECURSIVE SelectOutcome_NoStop(_, _, _, _, _, _)
\* No return at the first true conditional: the last true entry wins.
SelectOutcome_NoStop(a, i, matching, total, result, evaluated) ==
    IF i > Len(a.Outcomes) THEN Return(result, nil, "outcomes", evaluated, a)
    ELSE
    LET outcome == a.Outcomes[i]
        kind    == Kind(outcome)
        single  == IF kind = "Fail" THEN outcome.Fail
                   ELSE IF kind = "Warn" THEN outcome.Warn ELSE outcome.Pass
        when    == compareNodeResourceConditionalToActual(single.When, matching, total)
    IN  IF kind = "none"
        THEN SelectOutcome_NoStop(a, i + 1, matching, total, result, evaluated)
        ELSE IF when.err # nil
        THEN Return(NilResult, "failed to parse when: " \o when.err, "outcomes",
                    evaluated + 1, a)
        ELSE SelectOutcome_NoStop(a, i + 1, matching, total,
                IF when.res THEN Verdict(NewResult(result.Title), kind, single)
                ELSE result,
                evaluated + 1)

RECURSIVE SelectOutcome(_, _, _, _, _, _)
\* The loop over the outcomes; `evaluated` counts the conditionals evaluated.
SelectOutcome(a, i, matching, total, result, evaluated) ==
    IF i > Len(a.Outcomes) THEN Return(result, nil, "outcomes", evaluated, a)
    ELSE
    LET outcome == a.Outcomes[i]
        kind    == Kind(outcome)
        single  == IF kind = "Fail" THEN outcome.Fail
                   ELSE IF kind = "Warn" THEN outcome.Warn ELSE outcome.Pass
        when    == compareNodeResourceConditionalToActual(single.When, matching, total)
    IN  IF kind = "none"
        THEN SelectOutcome(a, i + 1, matching, total, result, evaluated)
        ELSE IF when.err # nil
        THEN Return(NilResult, Wrap(when.err, "failed to parse when"), "outcomes",
                    evaluated + 1, a)
        ELSE IF when.res
        THEN Return(Verdict(result, kind, single), nil, "outcomes", evaluated + 1, a)
        ELSE SelectOutcome(a, i + 1, matching, total, result, evaluated + 1)

\* From the decoding of nodes.json on, with the filters and outcomes in `a`.
Evaluate(a, collected, result) ==
    IF ~collected.valid
    THEN Return(NilResult, Wrap("invalid character", "failed to unmarshal node list"),
                "unmarshal", 0, a)
    ELSE
    LET nodes    == collected.items
        filtered == FilterNodes(nodes, a.Filters, 1, << >>)
    IN  IF filtered.err # nil THEN Return(NilResult, filtered.err, "filters", 0, a)
        ELSE SelectOutcome(a, 1, filtered.matchingNodes, Len(nodes), result, 0)

SkipMessage(name) ==
    "Test skipped: Deployment " \o name
        \o " found in the cluster, but no specs were found for updates, under 'onUpdate:' field"

\* No skip: a deployment that is found without onUpdate specs leaves the rule
\* as it is.
Gate_NoSkip(a, c, title, result) ==
    IF a.Deployment.isNil THEN [returns |-> FALSE, analyzer |-> a]
    ELSE
    LET found == checkDeployment(a, c)
    IN  IF found.err # nil
        THEN [returns |-> TRUE,
              return |-> Return(NilResult, found.err, "deployment", 0, a)]
        ELSE IF found.exists
        THEN IF ~a.OnUpdate.isNil
             THEN [returns |-> FALSE,
                   analyzer |-> [a EXCEPT !.Filters = a.OnUpdate.Filters,
                                          !.Outcomes = a.OnUpdate.Outcomes]]
             ELSE [returns |-> FALSE, analyzer |-> a]
        ELSE IF ~a.OnInstall.isNil
        THEN [returns |-> FALSE,
              analyzer |-> [a EXCEPT !.Filters = a.OnInstall.Filters,
                                     !.Outcomes = a.OnInstall.Outcomes]]
        ELSE [returns |-> FALSE, analyzer |-> a]

\* A deployment that is not found without onInstall specs skips the test, as a
\* deployment that is found without onUpdate specs does.
Gate_SkipsInstall(a, c, title, result) ==
    IF a.Deployment.isNil THEN [returns |-> FALSE, analyzer |-> a]
    ELSE
    LET found == checkDeployment(a, c)
        skip  == [returns |-> TRUE,
                  return |->
                      Return([result EXCEPT !.Title = "Skipped: " \o title,
                                            !.IsWarn = TRUE,
                                            !.Message = SkipMessage(a.Deployment.Name)],
                             nil, "skipped", 0, a)]
    IN  IF found.err # nil
        THEN [returns |-> TRUE,
              return |-> Return(NilResult, found.err, "deployment", 0, a)]
        ELSE IF found.exists
        THEN IF ~a.OnUpdate.isNil
             THEN [returns |-> FALSE,
                   analyzer |-> [a EXCEPT !.Filters = a.OnUpdate.Filters,
                                          !.Outcomes = a.OnUpdate.Outcomes]]
             ELSE skip
        ELSE IF ~a.OnInstall.isNil
        THEN [returns |-> FALSE,
              analyzer |-> [a EXCEPT !.Filters = a.OnInstall.Filters,
                                     !.Outcomes = a.OnInstall.Outcomes]]
        ELSE skip

\* The gate on the deployment: the rule with the specs to evaluate assigned to
\* its own Filters and Outcomes, or the return that ends the evaluation.
Gate(a, c, title, result) ==
    IF a.Deployment.isNil THEN [returns |-> FALSE, analyzer |-> a]
    ELSE
    LET found == checkDeployment(a, c)
    IN  IF found.err # nil
        THEN [returns |-> TRUE,
              return |-> Return(NilResult, found.err, "deployment", 0, a)]
        ELSE IF found.exists
        THEN IF ~a.OnUpdate.isNil
             THEN [returns |-> FALSE,
                   analyzer |-> [a EXCEPT !.Filters = a.OnUpdate.Filters,
                                          !.Outcomes = a.OnUpdate.Outcomes]]
             ELSE [returns |-> TRUE,
                   return |->
                      Return([result EXCEPT !.Title = "Skipped: " \o title,
                                            !.IsWarn = TRUE,
                                            !.Message = SkipMessage(a.Deployment.Name)],
                             nil, "skipped", 0, a)]
        ELSE IF ~a.OnInstall.isNil
        THEN [returns |-> FALSE,
              analyzer |-> [a EXCEPT !.Filters = a.OnInstall.Filters,
                                     !.Outcomes = a.OnInstall.Outcomes]]
        ELSE [returns |-> FALSE, analyzer |-> a]

\* The call: what it returns, where it returned (at), and the rule object as
\* the call leaves it.
analyzeNodeResources(a, c) ==
    LET collected == getCollectedFileContents(c, NodesFile)
        title     == IF a.CheckName = "" THEN "Node Resources" ELSE a.CheckName
        result    == NewResult(title)
    IN  IF collected.err # nil
        THEN Return(NilResult, Wrap(collected.err, "failed to get contents of nodes.json"),
                    "nodes.json", 0, a)
        ELSE LET gate == Gate(a, c, title, result)
             IN  IF gate.returns THEN gate.return
                 ELSE Evaluate(gate.analyzer, collected.contents, result)

----------------------------------------------------------------------------
(* Inputs *)

\* The eight properties of the data model: the list and the resource of each.
Field(property) ==
    CASE property = "cpuCapacity" -> <<"Capacity", "cpu">>
      [] property = "cpuAllocatable" -> <<"Allocatable", "cpu">>
      [] property = "memoryCapacity" -> <<"Capacity", "memory">>
      [] property = "memoryAllocatable" -> <<"Allocatable", "memory">>
      [] property = "podCapacity" -> <<"Capacity", "pods">>
      [] property = "podAllocatable" -> <<"Allocatable", "pods">>
      [] property = "ephemeralStorageCapacity" -> <<"Capacity", "ephemeral-storage">>
      [] property = "ephemeralStorageAllocatable" ->
            <<"Allocatable", "ephemeral-storage">>

Has(n, property) == Field(property)[2] \in DOMAIN n[Field(property)[1]]
ValueOf(n, property) == n[Field(property)[1]][Field(property)[2]]

Node(labels, capacity, allocatable) ==
    [Labels |-> labels, Capacity |-> capacity, Allocatable |-> allocatable]

\* A node that reports no resource at all.
BareNode == Node(NoEntries, NoEntries, NoEntries)

\* A node whose only property is `property`, of value v.
NodeWith(property, v) ==
    IF Field(property)[1] = "Capacity"
    THEN Node(NoEntries, Field(property)[2] :> v, NoEntries)
    ELSE Node(NoEntries, NoEntries, Field(property)[2] :> v)

Resources == {"cpu", "memory", "pods", "ephemeral-storage"}

\* A node that has every property but `property`.
NodeWithout(property) ==
    LET others(list) ==
            [r \in {x \in Resources : <<list, x>> # Field(property)} |-> 3000]
    IN  Node(NoEntries, others("Capacity"), others("Allocatable"))

NodePool(property) ==
    {BareNode, NodeWithout(property), NodeWith(property, 1000),
     NodeWith(property, 2000)}

SeqsUpTo(S, n) == UNION {[1..k -> S] : k \in 0..n}

Words(a, b, c) == a \o <<" ">> \o b \o <<" ">> \o c
Call(function, property) == <<function, "(">> \o property \o <<")">>

\* Decimal integer literals that fit an int, each with its value.
IntLiterals ==
    {[text |-> <<"0">>, value |-> 0], [text |-> <<"1">>, value |-> 1],
     [text |-> <<"2">>, value |-> 2], [text |-> <<"-", "1">>, value |-> 0 - 1],
     [text |-> <<"0", "2">>, value |-> 2]}

\* Decimal integer literals greater than every int: 1<<63 and 10^19.
WideLiterals ==
    {<<"9","2","2","3","3","7","2","0","3","6","8","5","4","7","7","5","8","0","8">>,
     <<"1","0","0","0","0","0","0","0","0","0","0","0","0","0","0","0","0","0","0","0">>}

\* Quantity literals, each with its value in thousandths.
QuantityLiterals ==
    {[text |-> <<"1">>, value |-> 1000], [text |-> <<"1", "5", "0", "0", "m">>,
      value |-> 1500]}

CountForm(full, operator, literal) ==
    IF full THEN Words(Call("count", << >>), operator, literal)
    ELSE operator \o <<" ">> \o literal

CountConditionals ==
    {CountForm(full, o, l) :
        full \in BOOLEAN, o \in Operators,
        l \in {x.text : x \in IntLiterals} \cup WideLiterals}

AggregateConditionals(property) ==
    {Words(Call(f, <<property>>), o, l.text) :
        f \in {"min", "max", "sum"}, o \in Operators, l \in QuantityLiterals}

\* Conditionals that do not split into two or three fields.
WrongFieldCount ==
    {<<" ">>, <<" ", " ">>, <<"banana">>, <<" ", "banana", " ">>,
     Call("count", << >>), Words(Call("count", << >>), <<">">>, <<"1">>) \o <<" ", "x">>,
     Words(<<"a">>, <<"b">>, <<"c">>) \o <<" ", "d", " ", "e">>}

\* First fields that hold a call f(p) of a function that is none of the four.
UnknownCalls ==
    {Call("foo", <<"cpuCapacity">>), Call("foo", << >>), <<"(", ")">>,
     Call("Count", << >>), <<"x">> \o Call("min", <<"cpuCapacity">>)}

\* First fields that hold no call at all.
NoCalls == {<<"banana">>, <<"count">>, <<"min">>, <<"count", "(">>, <<")", "x">>}

NotOperators == {<<"!", "=">>, <<"=", ">">>, <<"<", ">">>, <<"is">>, <<"=", "=", "=", "=">>}

SomeOperators == {<<"=", "=">>, <<">">>, <<"<", "=">>}

UnknownCallConditionals ==
    {Words(c, o, l.text) : c \in UnknownCalls, o \in SomeOperators, l \in IntLiterals}

NoCallConditionals ==
    {Words(c, o, l.text) : c \in NoCalls, o \in SomeOperators, l \in IntLiterals}

NotOperatorConditionals ==
    {Words(c, o, <<"1">>) :
        c \in {Call("count", << >>), Call("min", <<"cpuCapacity">>), <<"banana">>,
               Call("foo", << >>)},
        o \in NotOperators}
    \cup {o \o <<" ", "1">> : o \in NotOperators}

MalformedConditionals ==
    WrongFieldCount \cup UnknownCallConditionals \cup NoCallConditionals
    \cup NotOperatorConditionals

\* The threshold clause of each property.
ClauseOf(property) ==
    CASE property = "cpuCapacity" -> "CPUCapacity"
      [] property = "cpuAllocatable" -> "CPUAllocatable"
      [] property = "memoryCapacity" -> "MemoryCapacity"
      [] property = "memoryAllocatable" -> "MemoryAllocatable"
      [] property = "podCapacity" -> "PodCapacity"
      [] property = "podAllocatable" -> "PodAllocatable"
      [] property = "ephemeralStorageCapacity" -> "EphemeralStorageCapacity"
      [] property = "ephemeralStorageAllocatable" -> "EphemeralStorageAllocatable"

OnlyClause(property, text) == [EmptyFilters EXCEPT ![ClauseOf(property)] = text]

\* Well-formed bounds, each with its value in thousandths.
Bounds ==
    {[text |-> <<"0">>, value |-> 0], [text |-> <<"1">>, value |-> 1000],
     [text |-> <<"2">>, value |-> 2000], [text |-> <<"3">>, value |-> 3000],
     [text |-> <<"1", "5", "0", "0", "m">>, value |-> 1500],
     [text |-> <<"-", "1">>, value |-> 0 - 1000]}

BadBounds == {<<"banana">>, <<"m">>, <<"1", "x">>}

Labelled(n, labels) == [n EXCEPT !.Labels = labels]

----------------------------------------------------------------------------
(* compareNodeResourceConditionalToActual on its own *)

NotCalled == [done |-> FALSE, res |-> FALSE, err |-> nil]
Called(r) == [done |-> TRUE, res |-> r.res, err |-> r.err]

OthersIdleCompare ==
    /\ analyzer = Idle /\ declared = Idle /\ files = Idle /\ ret = Idle
    /\ node = Idle /\ filters = Idle /\ isMatch = Idle
    /\ analyzers = Idle /\ analyzeResults = Idle

InitCompare ==
    /\ OthersIdleCompare
    /\ cmp = NotCalled
    /\ \/ \E p \in Properties :
            /\ matchingNodes \in SeqsUpTo(NodePool(p), MaxNodes)
            /\ conditional \in AggregateConditionals(p)
       \/ /\ matchingNodes \in SeqsUpTo(NodePool("cpuCapacity"), MaxNodes)
          /\ conditional \in CountConditionals \cup MalformedConditionals \cup {<< >>}
    /\ totalNodeCount \in {Len(matchingNodes), Len(matchingNodes) + 1}

CompareCall ==
    /\ ~cmp.done
    /\ cmp' = Called(compareNodeResourceConditionalToActual(
                        conditional, matchingNodes, totalNodeCount))
    /\ UNCHANGED <<analyzer, declared, files, ret, conditional, matchingNodes,
                   totalNodeCount, node, filters, isMatch, analyzers, analyzeResults>>

NextCompare == CompareCall

SpecCompare == InitCompare /\ [][NextCompare]_vars

----------------------------------------------------------------------------
(* What the conditionals mean *)

\* The comparison an operator stands for.
Meaning(operator, a, b) ==
    CASE operator \in {<<"=">>, <<"=", "=">>, <<"=", "=", "=">>} -> a = b
      [] operator = <<"<">> -> a < b
      [] operator = <<">">> -> a > b
      [] operator = <<"<", "=">> -> a <= b
      [] operator = <<">", "=">> -> a >= b

Answers(r, v) == r.err = nil /\ r.res = v
Fails(r) == r.err # nil /\ r.res = FALSE

Least(S) == CHOOSE x \in S : \A y \in S : x <= y
Most(S) == CHOOSE x \in S : \A y \in S : x >= y
Extreme(function, S) == IF function = "min" THEN Least(S) ELSE Most(S)

CountOfInt(full, o, l) ==
    conditional = CountForm(full, o, l.text)
        => Answers(cmp, Meaning(o, Len(matchingNodes), l.value))

\* A wide literal is greater than the count, whatever the count.
CountOfWide(full, o, w) ==
    conditional = CountForm(full, o, w)
        => Answers(cmp, Meaning(o, Len(matchingNodes), Len(matchingNodes) + 1))

\* C2 as claimed: "count() <operator> N" and "<operator> N" return, without
\* error, the comparison of the number of matching nodes with N, for every
\* decimal integer literal N.
C2_EveryLiteral ==
    cmp.done =>
        \A full \in BOOLEAN, o \in Operators :
            /\ \A l \in IntLiterals : CountOfInt(full, o, l)
            /\ \A w \in WideLiterals : CountOfWide(full, o, w)

\* C2 as amended: both forms return, without error, the comparison of the number
\* of matching nodes (not of the total node count) with N for every decimal
\* integer literal N in the range of int; a literal outside it is an error.
C2_IntLiteral ==
    cmp.done =>
        \A full \in BOOLEAN, o \in Operators :
            /\ \A l \in IntLiterals : CountOfInt(full, o, l)
            /\ \A w \in WideLiterals : conditional = CountForm(full, o, w) => Fails(cmp)

C2_Witness ==
    /\ cmp.done
    /\ conditional = CountForm(FALSE, <<"<", "=">>, <<"2">>)
    /\ Len(matchingNodes) = 2
    /\ totalNodeCount = 3
    /\ Answers(cmp, TRUE)

ExtremeOf(function, o, l, p, values) ==
    conditional = Words(Call(function, <<p>>), o, l.text)
        => IF values = {} THEN Fails(cmp)
           ELSE Answers(cmp, Meaning(o, Extreme(function, values), l.value))

\* C7 as claimed: min and max range over the matching nodes that have the
\* property; with no such node the comparison is an error.
C7_SkipsLacking ==
    cmp.done =>
        \A p \in Properties, f \in {"min", "max"}, o \in Operators,
           l \in QuantityLiterals :
            ExtremeOf(f, o, l, p,
                {ValueOf(matchingNodes[i], p) :
                    i \in {j \in 1..Len(matchingNodes) : Has(matchingNodes[j], p)}})

\* C7 as amended: min and max range over all the matching nodes, a node that
\* lacks the property counting as zero; only with no matching node at all is
\* the comparison an error.
C7_LackingIsZero ==
    cmp.done =>
        \A p \in Properties, f \in {"min", "max"}, o \in Operators,
           l \in QuantityLiterals :
            ExtremeOf(f, o, l, p,
                {IF Has(matchingNodes[i], p) THEN ValueOf(matchingNodes[i], p) ELSE 0 :
                    i \in 1..Len(matchingNodes)})

C7_Witness ==
    /\ cmp.done
    /\ conditional = Words(Call("min", <<"podAllocatable">>), <<"<">>, <<"1">>)
    /\ matchingNodes = <<NodeWith("podAllocatable", 2000), BareNode>>
    /\ Answers(cmp, TRUE)

\* C8 as claimed: every malformed conditional is an error.
C8_AllRejected ==
    cmp.done /\ conditional \in MalformedConditionals => Fails(cmp)

\* C8 as amended: a conditional is an error when it does not split into two or
\* three fields, when its operator is none of the seven, or when the first of
\* its three fields holds a call f(p) of a function that is none of count, min,
\* max and sum; a first field that holds no call at all ("banana > 3") is no
\* error: the conditional is evaluated as count() <operator> <literal>.
C8_NoCallIsCount ==
    cmp.done =>
        /\ conditional \in WrongFieldCount \cup UnknownCallConditionals
                            \cup NotOperatorConditionals => Fails(cmp)
        /\ \A c \in NoCalls, o \in SomeOperators, l \in IntLiterals :
                conditional = Words(c, o, l.text)
                    => Answers(cmp, Meaning(o, Len(matchingNodes), l.value))

C8_Witness ==
    /\ cmp.done
    /\ conditional = Words(<<"banana">>, <<">">>, <<"1">>)
    /\ Len(matchingNodes) = 2
    /\ Answers(cmp, TRUE)

----------------------------------------------------------------------------
(* nodeMatchesFilters on its own *)

OthersIdleMatch ==
    /\ analyzer = Idle /\ declared = Idle /\ files = Idle /\ ret = Idle
    /\ conditional = Idle /\ matchingNodes = Idle /\ totalNodeCount = 0
    /\ cmp = Idle /\ analyzers = Idle /\ analyzeResults = Idle

InitMatch ==
    /\ OthersIdleMatch
    /\ isMatch = [done |-> FALSE, match |-> FALSE, err |-> nil]
    /\ \E p \in Properties :
        /\ node \in NodePool(p)
                \cup {NodeWith(p, 1500), Labelled(NodeWith(p, 2000), "zone" :> "a"),
                      Labelled(BareNode, "zone" :> "b")}
        /\ filters \in {OnlyClause(p, b.text) : b \in Bounds}
                \cup {OnlyClause(p, b) : b \in BadBounds}
                \cup {NilFilters, EmptyFilters,
                      [EmptyFilters EXCEPT !.Selector = Selector("zone" :> "a")],
                      [OnlyClause(p, <<"2">>) EXCEPT !.Selector = Selector("zone" :> "a")],
                      [OnlyClause(p, <<"2">>) EXCEPT !.CPUCapacity = <<"1">>,
                                                  !.PodAllocatable = <<"banana">>]}

MatchCall ==
    /\ ~isMatch.done
    /\ isMatch' = [done |-> TRUE] @@ nodeMatchesFilters(node, filters)
    /\ UNCHANGED <<analyzer, declared, files, ret, conditional, matchingNodes,
                   totalNodeCount, cmp, node, filters, analyzers, analyzeResults>>

NextMatch == MatchCall

SpecMatch == InitMatch /\ [][NextMatch]_vars

\* C6 as claimed: with one threshold clause declared, of a well-formed bound, a
\* node matches exactly when it has the property with a value at or above the
\* bound; a node that lacks the property never matches; no error either way.
C6_LackingExcluded ==
    isMatch.done =>
        \A p \in Properties, b \in Bounds :
            filters = OnlyClause(p, b.text) =>
                /\ isMatch.err = nil
                /\ isMatch.match = (Has(node, p) /\ ValueOf(node, p) >= b.value)

\* C6 as amended: with one threshold clause declared, of a well-formed bound, a
\* node matches exactly when its value, zero for a node that lacks the
\* property, is at or above the bound (a value equal to the bound matches); so
\* a node that lacks the property is excluded for a bound above zero and
\* included for a bound of zero or less; no error either way.
C6_LackingIsZero ==
    isMatch.done =>
        \A p \in Properties, b \in Bounds :
            filters = OnlyClause(p, b.text) =>
                /\ isMatch.err = nil
                /\ isMatch.match =
                        ((IF Has(node, p) THEN ValueOf(node, p) ELSE 0) >= b.value)

C6_Witness ==
    /\ isMatch.done
    /\ filters = OnlyClause("memoryAllocatable", <<"2">>)
    /\ node = NodeWith("memoryAllocatable", 2000)
    /\ isMatch.match /\ isMatch.err = nil

----------------------------------------------------------------------------
(* analyzeNodeResources, called again and again on one rule object *)

Fail(when, message, uri) ==
    [Fail |-> SingleOutcome(when, message, uri), Warn |-> NilOutcome, Pass |-> NilOutcome]
Warn(when, message, uri) ==
    [Fail |-> NilOutcome, Warn |-> SingleOutcome(when, message, uri), Pass |-> NilOutcome]
Pass(when, message, uri) ==
    [Fail |-> NilOutcome, Warn |-> NilOutcome, Pass |-> SingleOutcome(when, message, uri)]

\* Entries of one outcome each, as the data model has them.
OutcomePool ==
    {Fail(Words(Call("count", << >>), <<">">>, <<"1">>), "too many nodes", "kb/many"),
     Warn(<<">", " ", "0">>, "some nodes", "kb/some"),
     Pass(<< >>, "fine", ""),
     Warn(<<"banana">>, "never", "")}

OutcomeLists ==
    {o \in SeqsUpTo(OutcomePool, MaxOutcomes) :
        \A i, j \in 1..Len(o) : i # j => o[i] # o[j]}

FilterPool ==
    {NilFilters, [EmptyFilters EXCEPT !.Selector = Selector("zone" :> "a")],
     OnlyClause("cpuCapacity", <<"2">>)}

TheDeployment == [isNil |-> FALSE, Name |-> "app", Namespace |-> "default"]
OnUpdateSpecs == Specs(NilFilters, <<Pass(<< >>, "update: fine", "kb/update")>>)
OnInstallSpecs ==
    Specs(OnlyClause("cpuCapacity", <<"2">>),
          <<Fail(<<"<", " ", "1">>, "install: no large node", "kb/install"),
            Pass(<< >>, "install: fine", "")>>)

Rules ==
    {[CheckName |-> "", Filters |-> f, Outcomes |-> o, Deployment |-> g[1],
      OnUpdate |-> g[2], OnInstall |-> g[3]] :
        f \in FilterPool, o \in OutcomeLists,
        g \in {<<NilDeployment, NilSpecs, NilSpecs>>,
               <<TheDeployment, NilSpecs, NilSpecs>>,
               <<TheDeployment, OnUpdateSpecs, NilSpecs>>,
               <<TheDeployment, NilSpecs, OnInstallSpecs>>,
               <<TheDeployment, OnUpdateSpecs, OnInstallSpecs>>}}

NodeA == Node("zone" :> "a", "cpu" :> 2000, "cpu" :> 2000)
NodeB == Node("zone" :> "b", "cpu" :> 1000, NoEntries)

NodeFiles ==
    {Json(<< >>), Json(<<NodeA>>), Json(<<NodeA, NodeA>>), Json(<<NodeA, NodeB>>),
     Undecodable}
DeploymentFiles ==
    {Json(<<[Name |-> "other"]>>), Json(<<[Name |-> "other"], [Name |-> "app"]>>),
     Undecodable}

Snapshots ==
    {Collected(NilMap, all) :
        all \in {(NodesFile :> n) @@ (DeploymentsFile("default") :> d) :
                    n \in NodeFiles, d \in DeploymentFiles}
                \cup {NodesFile :> n : n \in NodeFiles}
                \cup {DeploymentsFile("default") :> d : d \in DeploymentFiles}}
    \cup {Collected(Map(NodesFile :> Json(<<NodeA>>)), NodesFile :> Undecodable)}

NotReturned ==
    [done |-> FALSE, result |-> NilResult, err |-> nil, at |-> "", evaluated |-> 0]

OthersIdle ==
    /\ conditional = Idle /\ matchingNodes = Idle /\ totalNodeCount = 0 /\ cmp = Idle
    /\ node = Idle /\ filters = Idle /\ isMatch = Idle
    /\ analyzers = Idle /\ analyzeResults = Idle

Init ==
    /\ OthersIdle
    /\ declared \in Rules
    /\ analyzer = declared
    /\ files = Collected(NilMap, NoEntries)
    /\ ret = NotReturned

\* One evaluation of the rule against a snapshot: the rule object is the one
\* the evaluation before it left.
AnalyzeNodeResources ==
    \E c \in Snapshots :
        \E r \in {analyzeNodeResources(analyzer, c)} :
            /\ files' = c
            /\ analyzer' = r.analyzer
            /\ ret' = [done |-> TRUE, result |-> r.result, err |-> r.err, at |-> r.at,
                       evaluated |-> r.evaluated]
            /\ UNCHANGED <<declared, conditional, matchingNodes, totalNodeCount, cmp,
                           node, filters, isMatch, analyzers, analyzeResults>>

Next == AnalyzeNodeResources

Spec == Init /\ [][Next]_vars

----------------------------------------------------------------------------
(* What an evaluation is to return *)

\* The node inventory the last evaluation read.
Inventory == getCollectedFileContents(files, NodesFile)

\* The deployments collected for the namespace of the rule's deployment.
Deployments == getCollectedFileContents(files, DeploymentsFile(declared.Deployment.Namespace))
Listed ==
    /\ Deployments.err = nil
    /\ Deployments.contents.valid
Found ==
    /\ Listed
    /\ \E i \in 1..Len(Deployments.contents.items) :
            Deployments.contents.items[i].Name = declared.Deployment.Name
NotFound ==
    /\ Listed
    /\ \A i \in 1..Len(Deployments.contents.items) :
            Deployments.contents.items[i].Name # declared.Deployment.Name

\* The one outcome an entry declares.
Declares(outcome) == CHOOSE k \in {"Fail", "Warn", "Pass"} : ~outcome[k].isNil

NoVerdict(result) == ~result.IsFail /\ ~result.IsWarn /\ ~result.IsPass
OnlyVerdict(result, kind) ==
    /\ result.IsFail = (kind = "Fail")
    /\ result.IsWarn = (kind = "Warn")
    /\ result.IsPass = (kind = "Pass")

Same(r, q) == r.result = q.result /\ r.err = q.err

\* C1: the outcomes are evaluated in list order against the matching nodes; the
\* first entry whose conditional is true gives the verdict, the message and the
\* URI, and no entry after it is evaluated; with no true conditional and no
\* error the result has no verdict, and there is no error.
C1_FirstTrueWins ==
    ret.done /\ ret.at = "outcomes" =>
        LET outcomes == analyzer.Outcomes
            nodes    == Inventory.contents.items
            matching == SelectSeq(nodes,
                            LAMBDA n : nodeMatchesFilters(n, analyzer.Filters).match)
            when(i)  == compareNodeResourceConditionalToActual(
                            outcomes[i][Declares(outcomes[i])].When, matching, Len(nodes))
            true(i)  == when(i).err = nil /\ when(i).res
            false(i) == when(i).err = nil /\ ~when(i).res
        IN  /\ \A i \in 1..Len(outcomes) :
                    true(i) /\ (\A j \in 1..(i - 1) : false(j)) =>
                        /\ ret.err = nil
                        /\ ~ret.result.isNil
                        /\ OnlyVerdict(ret.result, Declares(outcomes[i]))
                        /\ ret.result.Message = outcomes[i][Declares(outcomes[i])].Message
                        /\ ret.result.URI = outcomes[i][Declares(outcomes[i])].URI
                        /\ ret.evaluated = i
            /\ (\A i \in 1..Len(outcomes) : false(i)) =>
                    /\ ret.err = nil
                    /\ ~ret.result.isNil
                    /\ NoVerdict(ret.result)

C1_Witness ==
    /\ ret.done /\ ret.at = "outcomes"
    /\ analyzer.Outcomes = <<Warn(<<">", " ", "0">>, "some nodes", "kb/some"),
                             Warn(<<"banana">>, "never", "")>>
    /\ Inventory.contents.items = <<NodeA, NodeB>>
    /\ ret.result.IsWarn /\ ret.result.Message = "some nodes"
    /\ ret.evaluated = 1

\* C3: with a deployment configured, found in the snapshot, and no onUpdate
\* specs, the evaluation of a snapshot that holds a node inventory returns no
\* error and a result that is Warn only, with the skip message, whatever the
\* inventory, the filters and the outcomes are: nothing is decoded, filtered or
\* evaluated.
C3_SkipIsWarn ==
    /\ ret.done /\ Inventory.err = nil
    /\ ~declared.Deployment.isNil /\ declared.OnUpdate.isNil /\ Found
    =>  /\ ret.err = nil
        /\ ~ret.result.isNil
        /\ OnlyVerdict(ret.result, "Warn")
        /\ ret.result.Message =
             "Test skipped: Deployment app found in the cluster, but no specs were found for updates, under 'onUpdate:' field"
        /\ ret.at = "skipped" /\ ret.evaluated = 0

C3_Witness ==
    /\ ret.done /\ Found /\ declared.OnUpdate.isNil
    /\ analyzer.Filters = [EmptyFilters EXCEPT !.Selector = Selector("zone" :> "a")]
    /\ analyzer.Outcomes = <<Warn(<<"banana">>, "never", "")>>
    /\ Inventory.err = nil /\ Inventory.contents = Json(<<NodeA, NodeB>>)
    /\ ret.result.IsWarn /\ ret.err = nil

Ungated(rule) == analyzeNodeResources([rule EXCEPT !.Deployment = NilDeployment], files)

\* C4: with a deployment configured and not found in the snapshot, one
\* evaluation of the rule as declared returns, without onInstall specs, what the
\* same rule without the deployment returns on the same snapshot, and with
\* onInstall specs what a rule of those filters and outcomes returns.
C4_InstallOrOriginal ==
    ret.done /\ ~declared.Deployment.isNil /\ NotFound =>
        IF declared.OnInstall.isNil
        THEN analyzer = declared => Same(ret, Ungated(declared))
        ELSE Same(ret, Ungated([declared EXCEPT !.Filters = declared.OnInstall.Filters,
                                                !.Outcomes = declared.OnInstall.Outcomes]))

C4_Witness ==
    /\ ret.done /\ ~declared.Deployment.isNil /\ NotFound
    /\ declared.OnInstall.isNil /\ ~declared.OnUpdate.isNil
    /\ analyzer = declared
    /\ ret.at = "outcomes" /\ ret.result.IsFail /\ ret.result.Message = "too many nodes"

\* C5: when the filters in use declare labels and the evaluation reaches the
\* filtering of the nodes, one node that lacks a declared label, or holds
\* another value for it, makes the evaluation return an error and no result.
C5_MismatchAborts ==
    /\ ret.done /\ ret.at \in {"filters", "outcomes"}
    /\ ~analyzer.Filters.isNil /\ ~analyzer.Filters.Selector.isNil
    /\ \E i \in 1..Len(Inventory.contents.items) :
        \E k \in DOMAIN analyzer.Filters.Selector.MatchLabel :
            \/ k \notin DOMAIN Inventory.contents.items[i].Labels
            \/ Inventory.contents.items[i].Labels[k]
                    # analyzer.Filters.Selector.MatchLabel[k]
    =>  ret.err # nil /\ ret.result.isNil

C5_Witness ==
    /\ ret.done /\ ret.at = "filters"
    /\ analyzer.Filters = [EmptyFilters EXCEPT !.Selector = Selector("zone" :> "a")]
    /\ analyzer.Outcomes = <<Pass(<< >>, "fine", "")>>
    /\ Inventory.contents = Json(<<NodeA, NodeB>>)
    /\ ret.err # nil /\ ret.result.isNil

\* C10: every evaluation of the rule object returns what an evaluation of the
\* rule as declared returns on the same snapshot.
C10_AsDeclared ==
    ret.done => Same(ret, analyzeNodeResources(declared, files))

----------------------------------------------------------------------------
(* CollectResult.Analyze *)

\* A []*AnalyzeResult: nil, or a slice.
NilSlice == [isNil |-> TRUE, items |-> << >>]
Slice(items) == [isNil |-> FALSE, items |-> items]

AnalyzerFailed(err) ==
    [NewResult("Analyzer Failed") EXCEPT !.IsFail = TRUE, !.Message = err]

RECURSIVE AnalyzeUntilError(_, _, _)
\* The loop ends at the first analyzer that fails.
AnalyzeUntilError(returns, i, results) ==
    IF i > Len(returns) THEN results
    ELSE IF returns[i].err # nil THEN Append(results, AnalyzerFailed(returns[i].err))
    ELSE AnalyzeUntilError(returns, i + 1,
            IF ~returns[i].analyzeResult.isNil
            THEN results \o returns[i].analyzeResult.items ELSE results)

Analyze_UntilError(returns) == AnalyzeUntilError(returns, 1, << >>)

RECURSIVE AnalyzeFrom(_, _, _)
\* The loop over the analyzers; returns[i] is what analyze.Analyze returns for
\* the i-th of them.
AnalyzeFrom(returns, i, results) ==
    IF i > Len(returns) THEN results
    ELSE LET analyzeResult ==
                IF returns[i].err # nil
                THEN Slice(<<AnalyzerFailed(returns[i].err)>>)
                ELSE returns[i].analyzeResult
         IN  AnalyzeFrom(returns, i + 1,
                IF ~analyzeResult.isNil THEN results \o analyzeResult.items
                ELSE results)

Analyze(returns) == AnalyzeFrom(returns, 1, << >>)

PassResult == [NewResult("Node Resources") EXCEPT !.IsPass = TRUE, !.Message = "fine"]
FailResult == [NewResult("Cluster Version") EXCEPT !.IsFail = TRUE, !.Message = "too old"]

\* What analyze.Analyze may return for an analyzer.
AnalyzeReturns ==
    {[analyzeResult |-> Slice(<<PassResult>>), err |-> nil],
     [analyzeResult |-> Slice(<<FailResult, PassResult>>), err |-> nil],
     [analyzeResult |-> NilSlice, err |-> nil],
     [analyzeResult |-> NilSlice, err |-> "invalid analyzer"],
     [analyzeResult |-> NilSlice,
      err |-> "failed to get contents of nodes.json: file cluster-resources/nodes.json was not collected"],
     [analyzeResult |-> Slice(<<PassResult>>), err |-> "failed to parse when"]}

OthersIdleAnalyze ==
    /\ analyzer = Idle /\ declared = Idle /\ files = Idle /\ ret = Idle
    /\ conditional = Idle /\ matchingNodes = Idle /\ totalNodeCount = 0 /\ cmp = Idle
    /\ node = Idle /\ filters = Idle /\ isMatch = Idle

InitAnalyze ==
    /\ OthersIdleAnalyze
    /\ analyzers \in SeqsUpTo(AnalyzeReturns, MaxAnalyzers)
    /\ analyzeResults = [done |-> FALSE, list |-> << >>]

AnalyzeCall ==
    /\ ~analyzeResults.done
    /\ analyzeResults' = [done |-> TRUE, list |-> Analyze(analyzers)]
    /\ UNCHANGED <<analyzer, declared, files, ret, conditional, matchingNodes,
                   totalNodeCount, cmp, node, filters, isMatch, analyzers>>

NextAnalyze == AnalyzeCall

SpecAnalyze == InitAnalyze /\ [][NextAnalyze]_vars

\* How many results the i-th analyzer is to give, and where they are to start.
Share(i) ==
    IF analyzers[i].err # nil THEN 1
    ELSE IF analyzers[i].analyzeResult.isNil THEN 0
    ELSE Len(analyzers[i].analyzeResult.items)

RECURSIVE Before(_)
Before(i) == IF i = 1 THEN 0 ELSE Before(i - 1) + Share(i - 1)

\* C9: the results of the analyzers follow one another in the order of the
\* list; an analyzer that fails gives exactly one result, IsFail with the title
\* "Analyzer Failed" and the error as message, and the analyzers after it give
\* theirs all the same.
C9_EveryAnalyzerReported ==
    analyzeResults.done =>
        /\ Len(analyzeResults.list) = Before(Len(analyzers) + 1)
        /\ \A i \in 1..Len(analyzers) :
            LET mine == SubSeq(analyzeResults.list, Before(i) + 1, Before(i) + Share(i))
            IN  IF analyzers[i].err # nil
                THEN /\ mine[1].IsFail /\ ~mine[1].IsWarn /\ ~mine[1].IsPass
                     /\ mine[1].Title = "Analyzer Failed"
                     /\ mine[1].Message = analyzers[i].err
                ELSE analyzers[i].analyzeResult.isNil
                        \/ mine = analyzers[i].analyzeResult.items

C9_Witness ==
    /\ analyzeResults.done
    /\ Len(analyzers) = 3
    /\ analyzers[1].err = "invalid analyzer"
    /\ analyzers[2].err = "failed to parse when"
    /\ analyzers[3].err = nil
    /\ analyzeResults.list[3] = FailResult
    /\ Len(analyzeResults.list) = 4

====
